---- MODULE Spec2Model ----
(***************************************************************************)
(* Software-surface drawing routines of sdl2.ext.draw: fill() and line().  *)
(*                                                                         *)
(* One behaviour is one call of fill() or line() on a freshly created      *)
(* surface.  Init draws the surface (bytes per pixel, clip rectangle) and  *)
(* the call's arguments from bounded sets; the actions are the steps of    *)
(* the call: line()'s validation, one action per kind of segment, one      *)
(* action per iteration of the Bresenham loop, and fill() as a whole.      *)
(*                                                                         *)
(* The pixel buffer is the flat element array the code indexes             *)
(* (pxbuf[int(y * frac + x)]), so a pixel (x, y) is the element            *)
(* y * frac + x and a row holds frac - SurfW padding elements.             *)
(***************************************************************************)
EXTENDS Integers, Sequences, FiniteSets, TLC

VARIABLES
    op,         \* "fill" or "line": the routine called
    area,       \* fill()'s area argument, a list of (x, y, w, h) tuples (<<>>: None or [])
    dline,      \* line()'s flat point list
    width,      \* line()'s width argument
    bpp,        \* rtarget.format.contents.BytesPerPixel
    clip_rect,  \* rtarget.clip_rect
    pxbuf,      \* the surface's pixels, element index -> packed value
    pc,         \* position in the call: "call", "for", "loop", "done", "error"
    raised,     \* the exception the call ended with, "none" while there is none
    idx,        \* line()'s loop variable, the offset of the current segment
    loc,        \* the locals of the Bresenham loop: x1, y1, x2, y2, dx, dy, err, sx, sy
    wrote,      \* history: the elements written by the current segment (or by fill)
    trace,      \* history: the pixels <<x, y>> the Bresenham loop wrote, in order
    handed,     \* history: the endpoints <<x1, y1, x2, y2>> handed to the Bresenham loop
    drawn       \* history: the offsets of the segments drawn to completion, in order

vars == <<op, area, dline, width, bpp, clip_rect, pxbuf, pc, raised, idx, loc,
          wrote, trace, handed, drawn>>

----------------------------------------------------------------------------
(* Bounds of the model *)

SurfW == 5      \* surface width in pixels
SurfH == 4      \* surface height in pixels
MaxCoord == 4   \* endpoint coordinates of a single segment range over -1 .. MaxCoord
MaxWidth == 3   \* width ranges over 0 .. MaxWidth
MaxSegs == 2    \* a point list holds at most MaxSegs segments
MaxAreas == 3   \* fill() is handed at most MaxAreas rectangles

----------------------------------------------------------------------------
(* The surface *)

Color == 1          \* the packed color prepare_color returns
Background == 0     \* the value of every pixel of the fresh surface

None == <<>>

Min(a, b) == IF a < b THEN a ELSE b
Max(a, b) == IF a > b THEN a ELSE b
Abs(a) == IF a < 0 THEN -a ELSE a

SDLRect(x, y, w, h) == [x |-> x, y |-> y, w |-> w, h |-> h]

\* rtarget.pitch: SDL pads every row of a surface to a multiple of 4 bytes
Pitch(b) == ((SurfW * b + 3) \div 4) * 4

\* frac = pitch / bpp, the number of elements per row (an integer for bpp 1, 2, 4)
Frac(b) == Pitch(b) \div b

\* the element of pixel (x, y): int(y * frac + x)
PixelIndex(x, y, b) == y * Frac(b) + x

BufIndices(b) == 0 .. (SurfH * Frac(b) - 1)

\* the pixel an element holds
PixelX(i, b) == i % Frac(b)
PixelY(i, b) == i \div Frac(b)

\* left, right, top, bottom of line(): the inclusive bounds of the clip rectangle
Left(c) == c.x
\* variant: the right bound taken as x + w, one past the last column
RightExclusive(c) == c.x + c.w
Right(c) == c.x + c.w - 1
Top(c) == c.y
Bottom(c) == c.y + c.h - 1

\* The elements SDL_FillRect writes for rectangle r: r intersected with the clip
\* rectangle; an empty intersection writes nothing.
RectElements(r, c, b) ==
    { PixelIndex(x, y, b) :
        x \in Max(r.x, c.x) .. (Min(r.x + r.w, c.x + c.w) - 1),
        y \in Max(r.y, c.y) .. (Min(r.y + r.h, c.y + c.h) - 1) }

\* SDL_FillRect(dst, rect, color); rect = None (NULL) stands for the clip rectangle
FillElements(r, c, b) == IF r = None THEN RectElements(c, c, b) ELSE RectElements(r, c, b)

Paint(buf, elems, color) == [i \in DOMAIN buf |-> IF i \in elems THEN color ELSE buf[i]]

SDL_FillRect(buf, r, c, b, color) == Paint(buf, FillElements(r, c, b), color)

\* the elements SDL_FillRects(dst, rects, count, color) writes: those of
\* SDL_FillRect on each rectangle in turn
SDL_FillRectsElements(rects, c, b) ==
    UNION { RectElements(rects[k], c, b) : k \in 1 .. Len(rects) }

----------------------------------------------------------------------------
(* sdl2.ext.algorithms.clipline, in exact arithmetic.  A number it returns  *)
(* is a fraction <<n, d>> with d > 0; None stands for (None, None, None,    *)
(* None), the segment lying entirely outside.                               *)

Frac2(n, d) == IF d < 0 THEN <<-n, -d>> ELSE <<n, d>>
FLess(a, b) == a[1] * b[2] < b[1] * a[2]
FMax(a, b) == IF FLess(a, b) THEN b ELSE a
FMin(a, b) == IF FLess(a, b) THEN a ELSE b
\* x + t * d for an integer x, a fraction t and an integer d
FAlong(x, t, d) == <<x * t[2] + t[1] * d, t[2]>>

LBChecks(left, top, right, bottom, s) ==
    << <<-(s[3] - s[1]), s[1] - left>>,
       <<s[3] - s[1], right - s[1]>>,
       <<-(s[4] - s[2]), s[2] - top>>,
       <<s[4] - s[2], bottom - s[2]>> >>

\* the parameter interval <<dt0, dt1>> of the part of the segment inside, or None
RECURSIVE LBInterval(_, _, _, _)
LBInterval(checks, k, dt0, dt1) ==
    IF k > Len(checks) THEN <<dt0, dt1>>
    ELSE LET p == checks[k][1]
             q == checks[k][2]
         IN  IF p = 0
             THEN IF q < 0 THEN None ELSE LBInterval(checks, k + 1, dt0, dt1)
             ELSE LET dt == Frac2(q, p)
                  IN  IF p < 0
                      THEN IF FLess(dt1, dt) THEN None
                           ELSE LBInterval(checks, k + 1, FMax(dt0, dt), dt1)
                      ELSE IF FLess(dt, dt0) THEN None
                           ELSE LBInterval(checks, k + 1, dt0, FMin(dt1, dt))

clipline(left, top, right, bottom, s) ==
    LET iv == LBInterval(LBChecks(left, top, right, bottom, s), 1, <<0, 1>>, <<1, 1>>)
        ddx == s[3] - s[1]
        ddy == s[4] - s[2]
    IN  IF iv = None THEN None
        ELSE << IF FLess(<<0, 1>>, iv[1]) THEN FAlong(s[1], iv[1], ddx) ELSE <<s[1], 1>>,
                IF FLess(<<0, 1>>, iv[1]) THEN FAlong(s[2], iv[1], ddy) ELSE <<s[2], 1>>,
                IF FLess(iv[2], <<1, 1>>) THEN FAlong(s[1], iv[2], ddx) ELSE <<s[3], 1>>,
                IF FLess(iv[2], <<1, 1>>) THEN FAlong(s[2], iv[2], ddy) ELSE <<s[4], 1>> >>

----------------------------------------------------------------------------
(* line() *)

\* int(x) of a float: truncation toward zero
ToInt(f) == IF f[1] >= 0 THEN f[1] \div f[2] ELSE -((-f[1]) \div f[2])

\* x1, y1, x2, y2 = dline[idx:idx + 4]
Segment(points, i) == <<points[i + 1], points[i + 2], points[i + 3], points[i + 4]>>

\* variant: the empty point list is rejected as malformed
ValidateRejectsEmpty(w, n, b) ==
    IF w < 1 THEN "ValueError"
    ELSE IF n % 4 # 0 \/ n = 0 THEN "ValueError"
    ELSE IF b = 3 THEN "UnsupportedError"
    ELSE "none"

\* variant: the check of 3 bytes per pixel is missing
ValidateNo24bpp(w, n, b) ==
    IF w < 1 THEN "ValueError"
    ELSE IF n % 4 # 0 THEN "ValueError"
    ELSE "none"

\* the checks line() makes before its loop over the segments, in the code's order
Validate(w, n, b) ==
    IF w < 1 THEN "ValueError"
    ELSE IF n % 4 # 0 THEN "ValueError"
    ELSE IF b = 3 THEN "UnsupportedError"
    ELSE "none"

IsVertical(s) == s[1] = s[3]
IsHorizontal(s) == s[2] = s[4]
IsDiagonal(s) == ~IsVertical(s) /\ ~IsHorizontal(s)

\* variant: the width is checked before the axis-aligned cases
SegmentKindWidthFirst(s, w) ==
    IF w # 1 THEN "unsupported"
    ELSE IF IsVertical(s) THEN "vertical"
    ELSE IF IsHorizontal(s) THEN "horizontal"
    ELSE "bresenham"

\* lines 136-154: the branch a segment takes
SegmentKind(s, w) ==
    IF IsVertical(s) THEN "vertical"
    ELSE IF IsHorizontal(s) THEN "horizontal"
    ELSE IF w # 1 THEN "unsupported"
    ELSE "bresenham"

\* variant: the width is centered with rounding up, (w + 1) // 2
VAreaCeil(s, w) ==
    IF s[2] < s[4]
    THEN SDLRect(s[1] - (w + 1) \div 2, s[2], w, s[4] - s[2])
    ELSE SDLRect(s[1] - (w + 1) \div 2, s[4], w, s[2] - s[4])

\* variant: the rectangle includes the row of the larger endpoint
VAreaInclusive(s, w) ==
    IF s[2] < s[4]
    THEN SDLRect(s[1] - w \div 2, s[2], w, s[4] - s[2] + 1)
    ELSE SDLRect(s[1] - w \div 2, s[4], w, s[2] - s[4] + 1)

\* the rectangle filled for a vertical segment
VArea(s, w) ==
    IF s[2] < s[4]
    THEN SDLRect(s[1] - w \div 2, s[2], w, s[4] - s[2])
    ELSE SDLRect(s[1] - w \div 2, s[4], w, s[2] - s[4])

\* the rectangle filled for a horizontal segment
HArea(s, w) ==
    IF s[1] < s[3]
    THEN SDLRect(s[1], s[2] - w \div 2, s[3] - s[1], w)
    ELSE SDLRect(s[3], s[2] - w \div 2, s[1] - s[3], w)

\* the locals of the Bresenham loop before its first iteration
BresenhamInit(a1, b1, a2, b2) ==
    [x1 |-> a1, y1 |-> b1, x2 |-> a2, y2 |-> b2,
     dx |-> Abs(a2 - a1), dy |-> -Abs(b2 - b1),
     err |-> Abs(a2 - a1) - Abs(b2 - b1),
     sx |-> IF a1 > a2 THEN -1 ELSE 1,
     sy |-> IF b1 > b2 THEN -1 ELSE 1]

\* variant: the exit test compares x alone
AtEndX(l) == l.x1 = l.x2

\* the loop's exit test
AtEnd(l) == l.x1 = l.x2 /\ l.y1 = l.y2

\* variant: the second test is an elif, so an iteration steps in x or in y, never both
AdvanceElif(l) ==
    LET e2 == l.err * 2
        stepx == e2 > l.dy
        stepy == ~stepx /\ e2 < l.dx
    IN  [l EXCEPT !.err = l.err + (IF stepx THEN l.dy ELSE 0) + (IF stepy THEN l.dx ELSE 0),
                  !.x1 = IF stepx THEN l.x1 + l.sx ELSE l.x1,
                  !.y1 = IF stepy THEN l.y1 + l.sy ELSE l.y1]

\* one iteration's update of err, x1 and y1
Advance(l) ==
    LET e2 == l.err * 2
        stepx == e2 > l.dy
        stepy == e2 < l.dx
    IN  [l EXCEPT !.err = l.err + (IF stepx THEN l.dy ELSE 0) + (IF stepy THEN l.dx ELSE 0),
                  !.x1 = IF stepx THEN l.x1 + l.sx ELSE l.x1,
                  !.y1 = IF stepy THEN l.y1 + l.sy ELSE l.y1]

NoLoc == BresenhamInit(0, 0, 0, 0)

InFor == pc = "for" /\ idx < Len(dline)
Cur == Segment(dline, idx)
Clipped == clipline(Left(clip_rect), Top(clip_rect), Right(clip_rect), Bottom(clip_rect), Cur)

\* lines 106-132: the checks of the whole call
LineEnter ==
    /\ pc = "call" /\ op = "line"
    /\ LET e == Validate(width, Len(dline), bpp)
       IN  /\ raised' = e
           /\ pc' = IF e = "none" THEN "for" ELSE "error"
    /\ UNCHANGED <<op, area, dline, width, bpp, clip_rect, pxbuf, idx, loc,
                   wrote, trace, handed, drawn>>

\* lines 136-143
VerticalSegment ==
    /\ InFor /\ SegmentKind(Cur, width) = "vertical"
    /\ pxbuf' = SDL_FillRect(pxbuf, VArea(Cur, width), clip_rect, bpp, Color)
    /\ wrote' = FillElements(VArea(Cur, width), clip_rect, bpp)
    /\ trace' = << >> /\ handed' = None
    /\ drawn' = Append(drawn, idx)
    /\ idx' = idx + 4
    /\ UNCHANGED <<op, area, dline, width, bpp, clip_rect, pc, raised, loc>>

\* lines 144-151
HorizontalSegment ==
    /\ InFor /\ SegmentKind(Cur, width) = "horizontal"
    /\ pxbuf' = SDL_FillRect(pxbuf, HArea(Cur, width), clip_rect, bpp, Color)
    /\ wrote' = FillElements(HArea(Cur, width), clip_rect, bpp)
    /\ trace' = << >> /\ handed' = None
    /\ drawn' = Append(drawn, idx)
    /\ idx' = idx + 4
    /\ UNCHANGED <<op, area, dline, width, bpp, clip_rect, pc, raised, loc>>

\* lines 152-153
DiagonalUnsupported ==
    /\ InFor /\ SegmentKind(Cur, width) = "unsupported"
    /\ pc' = "error" /\ raised' = "UnsupportedError"
    /\ wrote' = {} /\ trace' = << >> /\ handed' = None
    /\ UNCHANGED <<op, area, dline, width, bpp, clip_rect, pxbuf, idx, loc, drawn>>

\* lines 156-157 when clipline returns None for x1: int(None) raises TypeError
\* before the test of line 158 is reached
DiagonalRejected ==
    /\ InFor /\ SegmentKind(Cur, width) = "bresenham"
    /\ Clipped = None
    /\ pc' = "error" /\ raised' = "TypeError"
    /\ wrote' = {} /\ trace' = << >> /\ handed' = None
    /\ UNCHANGED <<op, area, dline, width, bpp, clip_rect, pxbuf, idx, loc, drawn>>

\* lines 156-168 when clipline returns numbers
DiagonalStart ==
    /\ InFor /\ SegmentKind(Cur, width) = "bresenham"
    /\ Clipped # None
    /\ LET c == Clipped
       IN  /\ loc' = BresenhamInit(ToInt(c[1]), ToInt(c[2]), ToInt(c[3]), ToInt(c[4]))
           /\ handed' = <<ToInt(c[1]), ToInt(c[2]), ToInt(c[3]), ToInt(c[4])>>
    /\ pc' = "loop"
    /\ wrote' = {} /\ trace' = << >>
    /\ UNCHANGED <<op, area, dline, width, bpp, clip_rect, pxbuf, raised, idx, drawn>>

\* lines 169-179: one iteration of the while loop
BresenhamStep ==
    /\ pc = "loop"
    /\ pxbuf' = Paint(pxbuf, {PixelIndex(loc.x1, loc.y1, bpp)}, Color)
    /\ wrote' = wrote \cup {PixelIndex(loc.x1, loc.y1, bpp)}
    /\ trace' = Append(trace, <<loc.x1, loc.y1>>)
    /\ IF AtEnd(loc)
       THEN /\ pc' = "for" /\ idx' = idx + 4
            /\ drawn' = Append(drawn, idx)
            /\ loc' = loc
       ELSE /\ loc' = Advance(loc)
            /\ UNCHANGED <<pc, idx, drawn>>
    /\ UNCHANGED <<op, area, dline, width, bpp, clip_rect, raised, handed>>

\* line 134: the range is exhausted and line() returns
LineReturn ==
    /\ pc = "for" /\ idx >= Len(dline)
    /\ pc' = "done"
    /\ UNCHANGED <<op, area, dline, width, bpp, clip_rect, pxbuf, raised, idx, loc,
                   wrote, trace, handed, drawn>>

----------------------------------------------------------------------------
(* fill() *)

\* lines 73-87: each (x, y, w, h) tuple of the area list becomes an SDL_Rect; None
\* and the empty list both leave rects empty
Rects(a) == [k \in 1 .. Len(a) |-> SDLRect(a[k][1], a[k][2], a[k][3], a[k][4])]

\* lines 89-96: the elements the dispatch writes
FillDispatch(rects, c, b) ==
    IF Len(rects) > 2 THEN SDL_FillRectsElements(rects, c, b)
    ELSE IF Len(rects) = 1 THEN FillElements(rects[1], c, b)
    ELSE FillElements(None, c, b)

Fill ==
    /\ pc = "call" /\ op = "fill"
    /\ pxbuf' = Paint(pxbuf, FillDispatch(Rects(area), clip_rect, bpp), Color)
    /\ wrote' = FillDispatch(Rects(area), clip_rect, bpp)
    /\ pc' = "done"
    /\ UNCHANGED <<op, area, dline, width, bpp, clip_rect, raised, idx, loc,
                   trace, handed, drawn>>

----------------------------------------------------------------------------
(* The calls checked *)

Coords == -1 .. MaxCoord
SingleSegs == { <<a, b, c, d>> : a \in Coords, b \in Coords, c \in Coords, d \in Coords }

\* segments of the multi-segment lists: vertical, horizontal, diagonal inside every
\* clip rectangle, diagonal outside the surface, a point, diagonal across the surface
SmallSegs ==
    { <<2, 1, 2, 3>>, <<3, 2, 1, 2>>, <<1, 1, 3, 2>>, <<-1, 3, 0, 4>>,
      <<2, 2, 2, 2>>, <<0, 0, 4, 3>> }

RECURSIVE SegLists(_)
SegLists(n) ==
    IF n = 0 THEN { << >> }
    ELSE { l \o s : l \in SegLists(n - 1), s \in SmallSegs }

Malformed ==
    { [k \in 1 .. n |-> (k % 3) + 1] : n \in { m \in 1 .. 4 * MaxSegs : m % 4 # 0 } }

PointLists == SingleSegs \cup UNION { SegLists(n) : n \in 0 .. MaxSegs } \cup Malformed

ClipRects == { SDLRect(0, 0, SurfW, SurfH), SDLRect(1, 1, SurfW - 2, SurfH - 2) }

FillAreas ==
    { <<0, 0, 2, 2>>, <<1, 1, 3, 2>>, <<3, 2, 4, 4>>, <<2, 0, 0, 3>> }

AreaLists == UNION { [1 .. n -> FillAreas] : n \in 0 .. MaxAreas }

Blank(b) == [i \in BufIndices(b) |-> Background]

Init ==
    /\ op \in {"fill", "line"}
    /\ bpp \in {1, 2, 3, 4}
    /\ clip_rect \in ClipRects
    /\ IF op = "line"
       THEN /\ dline \in PointLists
            /\ width \in 0 .. MaxWidth
            /\ area = << >>
       ELSE /\ dline = << >>
            /\ width = 1
            /\ area \in AreaLists
    /\ pxbuf = Blank(bpp)
    /\ pc = "call"
    /\ raised = "none"
    /\ idx = 0
    /\ loc = NoLoc
    /\ wrote = {}
    /\ trace = << >>
    /\ handed = None
    /\ drawn = << >>

Next ==
    \/ LineEnter
    \/ VerticalSegment
    \/ HorizontalSegment
    \/ DiagonalUnsupported
    \/ DiagonalRejected
    \/ DiagonalStart
    \/ BresenhamStep
    \/ LineReturn
    \/ Fill

Spec == Init /\ [][Next]_vars

----------------------------------------------------------------------------
(* Properties *)

Range(f) == { f[k] : k \in DOMAIN f }

\* the elements that no longer hold the background
Painted == { i \in DOMAIN pxbuf : pxbuf[i] # Background }

\* a call of line() that passes the checks of the whole call
ValidCall == op = "line" /\ width >= 1 /\ Len(dline) % 4 = 0 /\ bpp # 3

\* the segment at idx - 4 has just been processed to its end
SegmentDone == pc \in {"for", "done"} /\ idx >= 4
Last == Segment(dline, idx - 4)

Diagonal(s) == s[1] # s[3] /\ s[2] # s[4]

\* inside the clip rectangle, with right = x + w - 1 and bottom = y + h - 1
Inside(x, y) ==
    /\ clip_rect.x <= x /\ x <= clip_rect.x + clip_rect.w - 1
    /\ clip_rect.y <= y /\ y <= clip_rect.y + clip_rect.h - 1

\* the rectangle whose fill an axis-aligned segment is said to equal
AxisRect(s, w) ==
    IF s[1] = s[3]
    THEN SDLRect(s[1] - w \div 2, Min(s[2], s[4]), w, Abs(s[4] - s[2]))
    ELSE SDLRect(Min(s[1], s[3]), s[2] - w \div 2, Abs(s[3] - s[1]), w)

\* C1: every pixel line() writes, by a fill or in any iteration of the Bresenham
\* loop, lies inside the clip rectangle: left <= x <= right and top <= y <= bottom
\* with right = clip.x + clip.w - 1 and bottom = clip.y + clip.h - 1, and is an
\* element of the buffer.
C1_WritesInsideClip ==
    op = "line" =>
        /\ \A p \in Range(trace) :
               /\ Inside(p[1], p[2])
               /\ PixelIndex(p[1], p[2], bpp) \in BufIndices(bpp)
        /\ \A i \in wrote \cup Painted :
               /\ i \in BufIndices(bpp)
               /\ Inside(PixelX(i, bpp), PixelY(i, bpp))

\* a diagonal segment straddling the clip rectangle was clipped and drawn
C1_Witness ==
    /\ op = "line" /\ pc = "done" /\ Len(dline) = 4
    /\ handed # None /\ handed # Segment(dline, 0)
    /\ ~Inside(dline[1], dline[2]) /\ ~Inside(dline[3], dline[4])
    /\ Len(trace) >= 3

\* C2: a width-1 diagonal segment entirely outside the clip rectangle (clipline
\* returns None) raises no error: when line() has reached such a segment, the
\* call has not ended in an error.
C2_OutsideSegmentSkipped ==
    ( /\ ValidCall /\ width = 1
      /\ pc \in {"for", "error"} /\ idx < Len(dline)
      /\ Diagonal(Cur) /\ Clipped = None )
    => raised = "none"

\* C3 as stated: line() raises a value error whenever the length of points is
\* not a positive multiple of 4, the empty point list included.
C3_PositiveMultipleOf4 ==
    ( /\ op = "line" /\ pc \in {"done", "error"}
      /\ ~(Len(dline) > 0 /\ Len(dline) % 4 = 0) )
    => raised = "ValueError"

\* C3 amended: line() raises a value error whenever the length of points is not
\* a multiple of 4; the empty point list is accepted (with width >= 1 on a
\* surface that is not 3 bytes per pixel the call returns with no error and no
\* pixel written); pixels are written only when the length is 4, 8, 12, ...
C3_MultipleOf4 ==
    op = "line" =>
        /\ (Len(dline) % 4 # 0 /\ pc # "call") =>
               pc = "error" /\ raised = "ValueError" /\ pxbuf = Blank(bpp)
        /\ (Len(dline) = 0 /\ width >= 1 /\ bpp # 3 /\ pc # "call") =>
               pc \in {"for", "done"} /\ raised = "none" /\ pxbuf = Blank(bpp)
        /\ Painted # {} => Len(dline) > 0 /\ Len(dline) % 4 = 0

\* line() returned from a call with the empty point list
C3_Witness ==
    op = "line" /\ pc = "done" /\ Len(dline) = 0 /\ raised = "none"

\* the union of the rectangles of a list, each intersected with the clip rectangle
AreaUnion(a) ==
    UNION { RectElements(SDLRect(a[k][1], a[k][2], a[k][3], a[k][4]), clip_rect, bpp) :
              k \in 1 .. Len(a) }

\* C4: after fill() with n >= 1 rectangles exactly the pixels in the
\* clip-intersected union of the rectangles hold the color, and every other
\* pixel is unchanged.
C4_FillsUnionOfAreas ==
    (op = "fill" /\ pc = "done" /\ Len(area) >= 1) =>
        pxbuf = Paint(Blank(bpp), AreaUnion(area), Color)

\* C5: a call of line() that fails a check of the whole call leaves every pixel
\* unchanged: width < 1 and a malformed length raise a value error, and on a
\* 3-bytes-per-pixel surface a call that passes those two checks raises the
\* not-implemented error, whatever its segments are.
C5_ValidationBeforeWrites ==
    op = "line" =>
        /\ (width < 1 \/ Len(dline) % 4 # 0 \/ bpp = 3) =>
               /\ pxbuf = Blank(bpp) /\ wrote = {}
               /\ pc \in {"call", "error"}
        /\ (width < 1 /\ pc # "call") => raised = "ValueError"
        /\ (Len(dline) % 4 # 0 /\ pc # "call") => raised = "ValueError"
        /\ (width >= 1 /\ Len(dline) % 4 = 0 /\ bpp = 3 /\ pc # "call") =>
               raised = "UnsupportedError"

\* a call with one vertical segment on a 3-bytes-per-pixel surface was refused
C5_Witness ==
    /\ op = "line" /\ pc = "error" /\ raised = "UnsupportedError"
    /\ bpp = 3 /\ width = 2 /\ Len(dline) = 4 /\ dline[1] = dline[3]

\* C6: an axis-aligned segment writes exactly what a single-rectangle fill of
\* (x - width // 2, min(y1, y2), width, |y2 - y1|) writes when it is vertical,
\* and of (min(x1, x2), y - width // 2, |x2 - x1|, width) when it is horizontal.
C6_AxisSegmentIsRectFill ==
    (ValidCall /\ SegmentDone /\ ~Diagonal(Last)) =>
        /\ wrote = FillElements(AxisRect(Last, width), clip_rect, bpp)
        /\ \A i \in wrote : pxbuf[i] = Color
        /\ Len(dline) = 4 =>
               pxbuf = SDL_FillRect(Blank(bpp), AxisRect(Last, width), clip_rect, bpp, Color)

\* a vertical segment of width 3, given bottom-up, wrote two rows of three pixels
C6_Witness ==
    /\ ValidCall /\ pc = "done" /\ Len(dline) = 4
    /\ dline[1] = dline[3] /\ dline[2] > dline[4]
    /\ width = 3 /\ Cardinality(wrote) >= 6

\* the segments of the list at the offsets below n
SegOffsets(n) == { 4 * k : k \in 0 .. (n \div 4 - 1) }

\* the offset of the first diagonal segment of the list, its length if there is none
FirstDiagonal ==
    LET D == { o \in SegOffsets(Len(dline)) : Diagonal(Segment(dline, o)) }
    IN  IF D = {} THEN Len(dline) ELSE CHOOSE o \in D : \A q \in D : o <= q

\* the surface after the axis-aligned segments at the offsets below n are drawn
AxisPrefix(n) ==
    Paint(Blank(bpp),
          UNION { FillElements(AxisRect(Segment(dline, o), width), clip_rect, bpp) :
                    o \in SegOffsets(n) },
          Color)

\* C7: with width > 1 the not-implemented error is raised exactly when the list
\* holds a diagonal segment, at the first such segment: the axis-aligned segments
\* before it are drawn and stay drawn, no later segment is drawn; a list of
\* axis-aligned segments alone is drawn to its end with no error.
C7_UnsupportedAtFirstDiagonal ==
    (ValidCall /\ width > 1 /\ pc # "call") =>
        /\ pc \in {"for", "done", "error"}
        /\ idx <= FirstDiagonal
        /\ drawn = [k \in 1 .. (idx \div 4) |-> 4 * (k - 1)]
        /\ pxbuf = AxisPrefix(idx)
        /\ pc = "for" => raised = "none" /\ ENABLED Next
        /\ pc = "error" =>
               /\ raised = "UnsupportedError"
               /\ idx = FirstDiagonal /\ FirstDiagonal < Len(dline)
        /\ pc = "done" =>
               /\ raised = "none"
               /\ idx = Len(dline) /\ FirstDiagonal = Len(dline)

\* a vertical segment was drawn, then a diagonal one raised the error
C7_Witness ==
    /\ ValidCall /\ width = 2 /\ Len(dline) = 8
    /\ pc = "error" /\ raised = "UnsupportedError"
    /\ idx = 4 /\ drawn = <<0>> /\ Painted # {}

\* C8: the Bresenham loop terminates: it writes at most max(|x2 - x1|, |y2 - y1|) + 1
\* pixels; the first pixel it writes is (x1, y1), the last is (x2, y2), and it
\* writes nothing after (x2, y2).
C8_LoopEndsAtEndpoint ==
    (op = "line" /\ handed # None) =>
        LET first == <<handed[1], handed[2]>>
            last == <<handed[3], handed[4]>>
            n == Max(Abs(handed[3] - handed[1]), Abs(handed[4] - handed[2]))
        IN  /\ Len(trace) <= n + 1
            /\ Len(trace) >= 1 => trace[1] = first
            /\ \A k \in 1 .. (Len(trace) - 1) : trace[k] # last
            /\ pc = "loop" => ENABLED BresenhamStep
            /\ pc # "loop" => Len(trace) >= 1 /\ trace[Len(trace)] = last

\* the loop has run from one endpoint to a different one
C8_Witness ==
    /\ op = "line" /\ pc = "done" /\ handed # None
    /\ <<handed[1], handed[2]>> # <<handed[3], handed[4]>>
    /\ Abs(handed[4] - handed[2]) > Abs(handed[3] - handed[1])
    /\ Len(trace) >= 3

\* C9: a width-1 diagonal segment inside the clip rectangle writes exactly
\* max(|x2 - x1|, |y2 - y1|) + 1 distinct pixels and no others; consecutive
\* pixels differ by at most 1 in x and in y, all lie in the bounding box of the
\* endpoints, and for |x2 - x1| = |y2 - y1| they are (x1 + i*sx, y1 + i*sy).
C9_DiagonalFootprint ==
    ( /\ ValidCall /\ width = 1 /\ SegmentDone /\ Diagonal(Last)
      /\ Inside(Last[1], Last[2]) /\ Inside(Last[3], Last[4]) )
    =>
        LET s == Last
            n == Max(Abs(s[3] - s[1]), Abs(s[4] - s[2]))
            sgx == IF s[1] > s[3] THEN -1 ELSE 1
            sgy == IF s[2] > s[4] THEN -1 ELSE 1
        IN  /\ Len(trace) = n + 1
            /\ Cardinality(Range(trace)) = n + 1
            /\ wrote = { PixelIndex(p[1], p[2], bpp) : p \in Range(trace) }
            /\ Cardinality(wrote) = n + 1
            /\ \A i \in wrote : pxbuf[i] = Color
            /\ Len(dline) = 4 => Painted = wrote
            /\ \A k \in 1 .. (Len(trace) - 1) :
                   /\ Abs(trace[k + 1][1] - trace[k][1]) <= 1
                   /\ Abs(trace[k + 1][2] - trace[k][2]) <= 1
            /\ \A p \in Range(trace) :
                   /\ Min(s[1], s[3]) <= p[1] /\ p[1] <= Max(s[1], s[3])
                   /\ Min(s[2], s[4]) <= p[2] /\ p[2] <= Max(s[2], s[4])
            /\ Abs(s[3] - s[1]) = Abs(s[4] - s[2]) =>
                   \A k \in 1 .. Len(trace) :
                       trace[k] = <<s[1] + (k - 1) * sgx, s[2] + (k - 1) * sgy>>

\* the segment (0,0)-(3,3) was drawn on the unclipped surface
C9_Witness ==
    /\ ValidCall /\ width = 1 /\ pc = "done"
    /\ dline = <<0, 0, 3, 3>>
    /\ trace = << <<0, 0>>, <<1, 1>>, <<2, 2>>, <<3, 3>> >>

\* C10: a vertical segment writes rows min(y1, y2) .. max(y1, y2) - 1 only, a
\* horizontal one columns min(x1, x2) .. max(x1, x2) - 1 only, each such row or
\* column the clip rectangle admits being written; a segment whose endpoints
\* coincide takes the vertical branch and writes no pixel, for any width.
C10_LargerEndpointExcluded ==
    (ValidCall /\ SegmentDone /\ ~Diagonal(Last)) =>
        LET s == Last
            r == AxisRect(s, width)
            reach == \E x \in r.x .. (r.x + r.w - 1), y \in r.y .. (r.y + r.h - 1) : Inside(x, y)
        IN  /\ s[1] = s[3] =>
                /\ \A i \in wrote :
                       /\ Min(s[2], s[4]) <= PixelY(i, bpp)
                       /\ PixelY(i, bpp) <= Max(s[2], s[4]) - 1
                /\ \A y \in Min(s[2], s[4]) .. (Max(s[2], s[4]) - 1) :
                       (reach /\ clip_rect.y <= y /\ y <= clip_rect.y + clip_rect.h - 1)
                       => \E i \in wrote : PixelY(i, bpp) = y
            /\ s[1] # s[3] =>
                /\ \A i \in wrote :
                       /\ Min(s[1], s[3]) <= PixelX(i, bpp)
                       /\ PixelX(i, bpp) <= Max(s[1], s[3]) - 1
                /\ \A x \in Min(s[1], s[3]) .. (Max(s[1], s[3]) - 1) :
                       (reach /\ clip_rect.x <= x /\ x <= clip_rect.x + clip_rect.w - 1)
                       => \E i \in wrote : PixelX(i, bpp) = x
            /\ (s[1] = s[3] /\ s[2] = s[4]) =>
                /\ SegmentKind(s, width) = "vertical"
                /\ wrote = {}
                /\ Len(dline) = 4 => pxbuf = Blank(bpp)

\* a vertical segment ending on a row inside the clip rectangle left that row alone
C10_Witness ==
    /\ ValidCall /\ pc = "done" /\ Len(dline) = 4
    /\ dline[1] = dline[3] /\ dline[2] < dline[4]
    /\ Inside(dline[1], dline[4])
    /\ wrote # {}
    /\ pxbuf[PixelIndex(dline[1], dline[4], bpp)] = Background

====
